---- MODULE Spec2Model ----
(***************************************************************************)
(* Model of src/mcp_project/mcp_chatbot.py: MCP_ChatBot, a command-line    *)
(* agent that registers the tools, prompts and resources of several MCP    *)
(* servers in one dictionary (self.sessions), then runs an interactive     *)
(* loop whose free-text queries drive a model/tool-call conversation loop. *)
(*                                                                         *)
(* Strings keep their Python text.  A server is named by its position in   *)
(* the configuration (dict order of "mcpServers"); the ClientSession made  *)
(* for server s is the number s, and None is 0.                            *)
(***************************************************************************)
EXTENDS Integers, Sequences, FiniteSets, TLC

VARIABLES
  pc,                 \* position of main / chat_loop / process_query
  config,             \* number of entries of "mcpServers" (0 until loaded)
  next_server,        \* position in the loop of connect_to_servers
  exit_stack,         \* self.exit_stack: contexts entered, in order
  released,           \* contexts closed by exit_stack.aclose(), in order
  sessions,           \* self.sessions: dict, kept in insertion order
  available_tools,    \* self.available_tools
  available_prompts,  \* self.available_prompts
  advertised,         \* history: what each server returned from its listings
  caller,             \* who called process_query
  messages,           \* process_query's local transcript
  tool_calls,         \* message.tool_calls of the last model response
  idx,                \* position of the for loop over tool_calls
  sent,               \* history: the transcripts of this query's model requests
  responses,          \* history: the tool_calls of this query's model responses
  calls,              \* history: remote calls issued by the current command
  printed,            \* what the current command printed
  command,            \* history: the input line chat_loop is serving
  prompt_reply,       \* history: how get_prompt answered this command
  escaped             \* an exception left main's try block

vars == <<pc, config, next_server, exit_stack, released, sessions,
          available_tools, available_prompts, advertised, caller, messages,
          tool_calls, idx, sent, responses, calls, printed, command,
          prompt_reply, escaped>>

regVars   == <<sessions, available_tools, available_prompts>>
startVars == <<config, next_server, exit_stack, advertised>>
queryVars == <<caller, messages, tool_calls, idx, sent, responses>>

(***************************************************************************)
(* Bounds of the model.                                                    *)
(***************************************************************************)
MaxServers == 3      \* servers in the configuration, registration runs
MaxChatServers == 2  \* servers in the configuration, interactive runs
MaxCalls == 2        \* tool-invocation requests in one model response
MaxTurns == 2        \* model requests in one process_query invocation

None == 0

(***************************************************************************)
(* The strings of the model.  Tool names, prompt names and resource URIs   *)
(* are keys of the same dictionary, so one universe serves for all three.  *)
(***************************************************************************)
Names == {"search", "papers://ai"}

\* str.startswith("papers://"), tabulated over the strings of the model
StartsWithPapers(s) == s \in {"papers://ai", "papers://folders"}

\* str(resource.uri): the text of the AnyUrl a server lists
AnyUrl(text) == <<"AnyUrl", text>>
StrOfUri(u) == u[2]

(***************************************************************************)
(* Python dict, as the sequence of its <<key, value>> items in insertion   *)
(* order: assigning to a present key keeps the key's position.             *)
(***************************************************************************)
DictKeys(d) == {d[i][1] : i \in 1..Len(d)}

DictGet(d, k) ==
  IF k \in DictKeys(d)
  THEN LET i == CHOOSE j \in 1..Len(d) : d[j][1] = k IN d[i][2]
  ELSE None

DictSet(d, k, v) ==
  IF k \in DictKeys(d)
  THEN [i \in 1..Len(d) |-> IF d[i][1] = k THEN <<k, v>> ELSE d[i]]
  ELSE Append(d, <<k, v>>)

\* for key in keys: d[key] = v
RECURSIVE DictSetAll(_, _, _)
DictSetAll(d, keys, v) ==
  IF keys = <<>> THEN d
  ELSE DictSetAll(DictSet(d, Head(keys), v), Tail(keys), v)

(***************************************************************************)
(* What one server does when connect_to_server talks to it: the step at    *)
(* which it fails ("none": it does not) and the lists it returns.          *)
(***************************************************************************)
Stages == <<"launch", "session", "initialize", "list_tools",
            "list_prompts", "list_resources", "none">>

StageNo(st) == CHOOSE i \in 1..Len(Stages) : Stages[i] = st

\* the step `step` of connect_to_server completed
Passed(b, step) == StageNo(b.fail) > StageNo(step)

NameLists == {<<>>} \cup {<<n>> : n \in Names}

\* a resource's uri is an AnyUrl, so it has a scheme
UriLists == {<<>>} \cup {<<n>> : n \in {m \in Names : StartsWithPapers(m)}}

RegBehaviours ==
  [fail : {Stages[i] : i \in 1..Len(Stages)},
   tools : NameLists, prompts : NameLists, resources : UriLists]

\* the lists a server returned before it failed
Listed(b) ==
  [failed    |-> b.fail # "none",
   tools     |-> IF Passed(b, "list_tools") THEN b.tools ELSE <<>>,
   prompts   |-> IF Passed(b, "list_prompts") THEN b.prompts ELSE <<>>,
   resources |-> IF Passed(b, "list_resources") THEN b.resources ELSE <<>>]

(***************************************************************************)
(* MCP_ChatBot.__init__ and the start of main.                             *)
(***************************************************************************)
\* no get_prompt was issued
NoReply == "none"

Init ==
  /\ pc = "connect_to_servers"
  /\ config = 0
  /\ next_server = 1
  /\ exit_stack = <<>>
  /\ released = <<>>
  /\ sessions = <<>>
  /\ available_tools = <<>>
  /\ available_prompts = <<>>
  /\ advertised = <<>>
  /\ caller = "none"
  /\ messages = <<>>
  /\ tool_calls = <<>>
  /\ idx = 0
  /\ sent = <<>>
  /\ responses = <<>>
  /\ calls = <<>>
  /\ printed = <<>>
  /\ command = <<"none", "">>
  /\ prompt_reply = NoReply
  /\ escaped = FALSE

(***************************************************************************)
(* connect_to_servers, lines 72-75: load server_config.json.  A file that  *)
(* cannot be read or parsed prints, re-raises and leaves main's try.       *)
(***************************************************************************)
\* chat_loop starts once the loop over the servers is exhausted
AfterServer(s, n) == IF s >= n THEN "input" ELSE "connecting"

LoadConfig(n) ==
  /\ pc = "connect_to_servers"
  /\ config' = n
  /\ pc' = AfterServer(0, n)
  /\ UNCHANGED <<next_server, exit_stack, released, regVars, advertised,
                 queryVars, calls, printed, command, escaped, prompt_reply>>

\* a variant whose handler logs the error and returns
ConfigErrorSwallowed == FALSE

\* line 80: the handler re-raises what it logged
ConfigErrorPropagates == TRUE

LoadConfigFails ==
  /\ pc = "connect_to_servers"
  /\ printed' = Append(printed, <<"Error loading server config", "">>)
  /\ IF ConfigErrorPropagates
     THEN /\ escaped' = TRUE
          /\ pc' = "cleanup"
     ELSE /\ escaped' = escaped
          /\ pc' = "input"
  /\ UNCHANGED <<config, next_server, exit_stack, released, regVars,
                 advertised, queryVars, calls, command, prompt_reply>>

(***************************************************************************)
(* connect_to_server, lines 23-69, for the next server of the loop of      *)
(* connect_to_servers (line 76).                                           *)
(***************************************************************************)
\* lines 26-32: the contexts entered before the failing step
Entered(b, s) ==
  (IF Passed(b, "launch") THEN <<[kind |-> "stdio_client", server |-> s]>> ELSE <<>>)
  \o (IF Passed(b, "session") THEN <<[kind |-> "ClientSession", server |-> s]>> ELSE <<>>)

\* lines 39-46: the descriptor appended for one tool; `server` stands for
\* the description and inputSchema that this server gave
ToolDescriptor(name, s) == [name |-> name, server |-> s]

\* lines 53-57
PromptDescriptor(name, s) == [name |-> name, server |-> s]

\* lines 37-38, 51-52, 62-64: the keys the server sets, in the order set
RegisteredKeys(b) ==
  Listed(b).tools \o Listed(b).prompts
    \o [i \in 1..Len(Listed(b).resources) |-> StrOfUri(AnyUrl(Listed(b).resources[i]))]

\* line 68: what connect_to_server does with an exception
ConnectOutcome(b) ==
  IF b.fail = "none" THEN <<"Connected to", "">> ELSE <<"Error connecting to", "">>

\* a connect_to_server that lets the exception through
ConnectStopsOnFailure(b) == b.fail = "none"

\* lines 68-69, 76-77: the exception is caught and printed, so the loop of
\* connect_to_servers goes on to the next server whatever happened
ConnectContinues(b) == TRUE

ConnectToServer(b) ==
  /\ pc = "connecting"
  /\ next_server <= config
  /\ LET s == next_server
         l == Listed(b)
     IN /\ exit_stack' = exit_stack \o Entered(b, s)
        /\ sessions' = DictSetAll(sessions, RegisteredKeys(b), s)
        /\ available_tools' = available_tools
             \o [i \in 1..Len(l.tools) |-> ToolDescriptor(l.tools[i], s)]
        /\ available_prompts' = available_prompts
             \o [i \in 1..Len(l.prompts) |-> PromptDescriptor(l.prompts[i], s)]
        /\ advertised' = Append(advertised, l)
        /\ printed' = Append(printed, ConnectOutcome(b))
        /\ next_server' = s + 1
        /\ IF ConnectContinues(b)
           THEN /\ pc' = AfterServer(s, config)
                /\ escaped' = escaped
           ELSE /\ pc' = "cleanup"
                /\ escaped' = TRUE
  /\ UNCHANGED <<config, released, queryVars, calls, command, prompt_reply>>

(***************************************************************************)
(* json.loads and json.dumps over the argument payloads of the model: one  *)
(* well-formed payload in the compact form the model API emits, and one    *)
(* truncated payload.  json.dumps writes ": " after a key.                 *)
(***************************************************************************)
RawArgs == {"{\"city\":\"Boston\"}", "{\"city\":"}

json_loads(s) ==
  IF s \in {"{\"city\":\"Boston\"}", "{\"city\": \"Boston\"}"}
  THEN "dict(city='Boston')"
  ELSE "JSONDecodeError"

json_dumps(v) == IF v = "dict(city='Boston')" THEN "{\"city\": \"Boston\"}" ELSE "null"

(***************************************************************************)
(* Transcript entries.  Text is a sequence of words; a call identifier is  *)
(* <<turn, position>>, unique within one model response.                   *)
(***************************************************************************)
\* line 83
UserMessage(query) ==
  [role |-> "user", content |-> query, tool_call_id |-> <<>>,
   name |-> "", arguments |-> ""]

\* lines 112-122
AssistantToolCall(tool_id, tool_name, tool_args) ==
  [role |-> "assistant", content |-> <<>>, tool_call_id |-> tool_id,
   name |-> tool_name, arguments |-> json_dumps(tool_args)]

\* lines 124-128
ToolResult(tool_id, content) ==
  [role |-> "tool", content |-> content, tool_call_id |-> tool_id,
   name |-> "", arguments |-> ""]

\* a loop body that records the request and drops its result
TranscriptEntriesWithoutResult(call, content) ==
  <<AssistantToolCall(call.id, call.name, json_loads(call.arguments))>>

\* lines 112-128: what one completed tool call adds to the transcript
TranscriptEntries(call, content) ==
  <<AssistantToolCall(call.id, call.name, json_loads(call.arguments)),
    ToolResult(call.id, content)>>

\* the names a model response or an input line may carry
RequestNames == Names \cup {"nosuch"}

\* the tool names a model response may carry: a registered one and one
\* that no server knows
ModelToolNames == {"search", "nosuch"}

\* message.tool_calls of the response to model request number t
ToolCallLists(t) ==
  UNION {{[k \in 1..n |-> [id |-> <<t, k>>, name |-> f[k][1], arguments |-> f[k][2]]]
            : f \in [1..n -> ModelToolNames \X RawArgs]} : n \in 1..MaxCalls}

\* a loop that handles the first call of the response alone
CallsToHandleFirstOnly(response_calls) == <<response_calls[1]>>

\* line 98: the calls of the response that the for loop goes through
CallsToHandle(response_calls) == response_calls

\* a lookup whose result is used unchecked
MissingSessionNever(session) == FALSE

\* lines 106, 136, 142, 173: `if not session`
MissingSession(session) == session = None

Last(seq) == seq[Len(seq)]

RECURSIVE Reverse(_)
Reverse(seq) == IF seq = <<>> THEN <<>> ELSE Append(Reverse(Tail(seq)), Head(seq))

(***************************************************************************)
(* chat_loop, lines 200-239: one action per kind of input line.  Each      *)
(* starts a new command, so the per-command history starts afresh.         *)
(***************************************************************************)
Topics == {"folders", "ai"}

\* line 211
TopicUri(topic) == IF topic = "folders" THEN "papers://folders" ELSE "papers://ai"

Queries == {<<"hello">>}

\* lines 202-204: an empty line;  lines 232-233: an unknown slash command;
\* lines 222-224: /prompt without a name;  line 220: /prompts
ReadSimple(kind) ==
  /\ pc = "input"
  /\ command' = <<kind, "">>
  /\ prompt_reply' = NoReply
  /\ printed' =
       CASE kind = "empty"   -> <<>>
         [] kind = "unknown" -> <<<<"Unknown command", "">>>>
         [] kind = "usage"   -> <<<<"Usage: /prompt", "">>>>
         [] kind = "prompts" ->
              IF available_prompts = <<>>
              THEN <<<<"No prompts available.", "">>>>
              ELSE <<<<"Available prompts:", "">>>>
                   \o [i \in 1..Len(available_prompts) |->
                         <<"-", available_prompts[i].name>>]
  /\ calls' = <<>> /\ sent' = <<>> /\ responses' = <<>>
  /\ UNCHANGED <<pc, startVars, released, regVars, caller, messages,
                 tool_calls, idx, escaped>>

\* line 202: input() raises (end of input); line 238 catches it
InputFails ==
  /\ pc = "input"
  /\ command' = <<"EOFError", "">>
  /\ prompt_reply' = NoReply
  /\ printed' = <<<<"Error", "chat_loop">>>>
  /\ calls' = <<>> /\ sent' = <<>> /\ responses' = <<>>
  /\ UNCHANGED <<pc, startVars, released, regVars, caller, messages,
                 tool_calls, idx, escaped>>

\* lines 206-207
ReadQuit ==
  /\ pc = "input"
  /\ command' = <<"quit", "">>
  /\ prompt_reply' = NoReply
  /\ printed' = <<>>
  /\ calls' = <<>> /\ sent' = <<>> /\ responses' = <<>>
  /\ pc' = "cleanup"
  /\ UNCHANGED <<startVars, released, regVars, caller, messages,
                 tool_calls, idx, escaped>>

(***************************************************************************)
(* get_resource, lines 133-155, called from chat_loop lines 209-213.       *)
(***************************************************************************)
\* lines 137-140: the first item, in dict order, whose key starts with papers://
FirstPapersSession(d) ==
  IF \E i \in 1..Len(d) : StartsWithPapers(d[i][1])
  THEN LET i == CHOOSE j \in 1..Len(d) :
                  /\ StartsWithPapers(d[j][1])
                  /\ \A h \in 1..(j - 1) : ~StartsWithPapers(d[h][1])
       IN d[i][2]
  ELSE None

\* lines 134-140
ResolveResource(d, resource_uri) ==
  LET session == DictGet(d, resource_uri)
  IN IF MissingSession(session) /\ StartsWithPapers(resource_uri)
     THEN FirstPapersSession(d)
     ELSE session

ReadResults == {"contents", "empty", "raise"}

\* a variant that caches the session found for a URI in the registry
SessionsCachingLookup(d, uri, session) ==
  IF session = None THEN d ELSE DictSet(d, uri, session)

\* lines 134-140: the session found is held in a local variable only
SessionsAfterLookup(d, uri, session) == d

GetResource(topic, result) ==
  /\ pc = "input"
  /\ LET uri == TopicUri(topic)
         session == ResolveResource(sessions, uri)
     IN /\ command' = <<"@", uri>>
        /\ sessions' = SessionsAfterLookup(sessions, uri, session)
        /\ IF MissingSession(session)
           THEN /\ printed' = <<<<"Resource not found", uri>>>>
                /\ calls' = <<>>
           ELSE /\ calls' = <<[op |-> "read_resource", session |-> session, arg |-> uri]>>
                /\ printed' =
                     CASE result = "contents" -> <<<<"Resource:", uri>>, <<"Content:", uri>>>>
                       [] result = "empty"    -> <<<<"No content available.", "">>>>
                       [] result = "raise"    -> <<<<"Error", "get_resource">>>>
  /\ sent' = <<>> /\ responses' = <<>>
  /\ prompt_reply' = NoReply
  /\ UNCHANGED <<pc, startVars, released, available_tools, available_prompts,
                 caller, messages, tool_calls, idx, escaped>>

(***************************************************************************)
(* execute_prompt, lines 171-190, called from chat_loop lines 221-231, up  *)
(* to its call of process_query.                                           *)
(***************************************************************************)
\* result.messages[0].content, in its three shapes (lines 181-186)
PromptContents ==
  {[kind |-> "str", text |-> <<"summarize", "ai">>, items |-> <<>>],
   [kind |-> "TextContent", text |-> <<"summarize", "ai">>, items |-> <<>>],
   [kind |-> "list", text |-> <<>>, items |-> <<<<"summarize">>, <<"ai">>>>]}

RECURSIVE Join(_)
Join(items) == IF items = <<>> THEN <<>> ELSE Head(items) \o Join(Tail(items))

\* a variant that reads the text attribute whatever the shape
RenderedTextOfAttribute(content) == content.text

\* lines 181-186
RenderedText(content) ==
  IF content.kind \in {"str", "TextContent"} THEN content.text ELSE Join(content.items)

\* get_prompt raises, returns no message, or returns messages
PromptResults ==
  {[kind |-> "raise", text |-> <<>>, items |-> <<>>],
   [kind |-> "empty", text |-> <<>>, items |-> <<>>]} \cup PromptContents

\* lines 178-180: get_prompt raised, or returned no message, or messages
Reply(result) ==
  IF result.kind \in {"raise", "empty"} THEN result.kind ELSE "messages"

\* a variant that keeps the transcript of the previous query
InitialTranscriptKept(query) ==
  (IF sent = <<>> THEN <<>> ELSE Last(sent)) \o <<UserMessage(query)>>

\* line 83: the transcript of an invocation starts as its query alone
InitialTranscript(query) == <<UserMessage(query)>>

ExecutePrompt(prompt_name, result) ==
  /\ pc = "input"
  /\ command' = <<"/prompt", prompt_name>>
  /\ sent' = <<>> /\ responses' = <<>>
  /\ LET session == DictGet(sessions, prompt_name)
     IN IF MissingSession(session)
        THEN /\ printed' = <<<<"Prompt not found", prompt_name>>>>
             /\ calls' = <<>>
             /\ prompt_reply' = NoReply
             /\ UNCHANGED <<pc, caller, messages>>
        ELSE /\ calls' = <<[op |-> "get_prompt", session |-> session, arg |-> prompt_name]>>
             /\ prompt_reply' = Reply(result)
             /\ IF result.kind = "raise"
                THEN /\ printed' = <<<<"Error", "execute_prompt">>>>
                     /\ UNCHANGED <<pc, caller, messages>>
                ELSE IF result.kind = "empty"
                THEN /\ printed' = <<>>
                     /\ UNCHANGED <<pc, caller, messages>>
                ELSE /\ printed' = <<<<"Executing prompt", prompt_name>>>>
                     /\ caller' = "execute_prompt"
                     /\ messages' = InitialTranscript(RenderedText(result))
                     /\ pc' = "AwaitingModel"
  /\ UNCHANGED <<startVars, released, regVars, tool_calls, idx, escaped>>

\* line 236: a free-text query
ReadQuery(query) ==
  /\ pc = "input"
  /\ command' = <<"query", "">>
  /\ prompt_reply' = NoReply
  /\ printed' = <<>>
  /\ calls' = <<>> /\ sent' = <<>> /\ responses' = <<>>
  /\ caller' = "chat_loop"
  /\ messages' = InitialTranscript(query)
  /\ pc' = "AwaitingModel"
  /\ UNCHANGED <<startVars, released, regVars, tool_calls, idx, escaped>>

(***************************************************************************)
(* process_query, lines 82-131.  The awaits of the model request (line 86) *)
(* and of the tool call (line 110) are where it suspends.                  *)
(***************************************************************************)
\* process_query returns: its locals are gone and the caller goes on to
\* chat_loop's next input (line 188 ends execute_prompt's try, line 236 the loop body)
Return ==
  /\ pc' = "input"
  /\ caller' = "none"
  /\ messages' = <<>>
  /\ tool_calls' = <<>>
  /\ idx' = 0

\* a variant whose handler sits outside the while loop of chat_loop
RaiseEndsChatLoop ==
  /\ pc' = "cleanup"
  /\ caller' = "none"
  /\ messages' = <<>>
  /\ tool_calls' = <<>>
  /\ idx' = 0
  /\ printed' = Append(printed, <<"Error", caller>>)

\* an exception leaves process_query: line 189 (execute_prompt) or line 238
\* (chat_loop) catches and prints it
Raise ==
  /\ Return
  /\ printed' = Append(printed, <<"Error", caller>>)

\* lines 86-92
SendModelRequest ==
  /\ pc = "AwaitingModel"
  /\ sent' = Append(sent, messages)
  /\ calls' = Append(calls, [op |-> "model", session |-> None, arg |-> ""])
  /\ pc' = "ModelInFlight"
  /\ UNCHANGED <<startVars, released, regVars, caller, messages, tool_calls,
                 idx, responses, printed, command, escaped, prompt_reply>>

\* a while loop without its break
AnswerContinuesLoop ==
  /\ pc' = "AwaitingModel"
  /\ UNCHANGED <<caller, messages, tool_calls, idx>>

\* line 131: break leaves the while loop, and process_query returns
AnswerEndsLoop == Return

\* lines 94-97, 129-131: the response carries no tool call
ModelAnswers ==
  /\ pc = "ModelInFlight"
  /\ printed' = Append(printed, <<"message.content", "">>)
  /\ AnswerEndsLoop
  /\ UNCHANGED <<startVars, released, regVars, sent, responses, calls,
                 command, escaped, prompt_reply>>

\* lines 94-98: the response carries tool calls
ModelRequestsTools(response_calls) ==
  /\ pc = "ModelInFlight"
  /\ Len(sent) < MaxTurns
  /\ responses' = Append(responses, response_calls)
  /\ tool_calls' = CallsToHandle(response_calls)
  /\ idx' = 1
  /\ pc' = "HandlingToolCalls"
  /\ UNCHANGED <<startVars, released, regVars, caller, messages, sent, calls,
                 printed, command, escaped, prompt_reply>>

\* line 86 raises
ModelFails ==
  /\ pc = "ModelInFlight"
  /\ Raise
  /\ UNCHANGED <<startVars, released, regVars, sent, responses, calls,
                 command, escaped, prompt_reply>>

\* a variant that issues every remaining call of the turn at once
IssuedCallsGathered(pending, i, session) ==
  [k \in 1..(Len(pending) - i + 1) |->
     [op |-> "call_tool", session |-> session, arg |-> pending[i + k - 1].name]]

\* line 110: one awaited call_tool for the call at hand
IssuedCalls(pending, i, session) ==
  <<[op |-> "call_tool", session |-> session, arg |-> pending[i].name]>>

\* lines 99-110: one pass of the for loop up to the await of call_tool
BeginToolCall ==
  /\ pc = "HandlingToolCalls"
  /\ LET call == tool_calls[idx]
         tool_args == json_loads(call.arguments)
         session == DictGet(sessions, call.name)
     IN IF tool_args = "JSONDecodeError"
        THEN /\ Raise
             /\ UNCHANGED calls
        ELSE IF MissingSession(session)
        THEN /\ printed' = printed \o <<<<"Calling tool", call.name>>,
                                        <<"Tool not found", call.name>>>>
             /\ Return
             /\ UNCHANGED calls
        ELSE IF session = None
        THEN \* None has no call_tool: AttributeError
             /\ Raise
             /\ UNCHANGED calls
        ELSE /\ printed' = Append(printed, <<"Calling tool", call.name>>)
             /\ calls' = calls \o IssuedCalls(tool_calls, idx, session)
             /\ pc' = "ToolInFlight"
             /\ UNCHANGED <<caller, messages, tool_calls, idx>>
  /\ UNCHANGED <<startVars, released, regVars, sent, responses, command, escaped,
                 prompt_reply>>

\* lines 110-128: call_tool returns, the two entries are appended and the
\* for loop moves on; after the last call the while loop requests the model
ToolReturns ==
  /\ pc = "ToolInFlight"
  /\ messages' = messages \o TranscriptEntries(tool_calls[idx], <<"result">>)
  /\ idx' = idx + 1
  /\ pc' = IF idx >= Len(tool_calls) THEN "AwaitingModel" ELSE "HandlingToolCalls"
  /\ UNCHANGED <<startVars, released, regVars, caller, tool_calls, sent,
                 responses, calls, printed, command, escaped, prompt_reply>>

\* line 110 raises
ToolFails ==
  /\ pc = "ToolInFlight"
  /\ Raise
  /\ UNCHANGED <<startVars, released, regVars, sent, responses, calls,
                 command, escaped, prompt_reply>>

(***************************************************************************)
(* main, lines 249-250, and cleanup, lines 241-242: the exit stack closes  *)
(* its contexts last-in, first-out.                                        *)
(***************************************************************************)
\* a variant that closes the sessions and leaves the transports open
ClosedSessionsOnly(stack) ==
  SelectSeq(Reverse(stack), LAMBDA c : c.kind = "ClientSession")

\* line 242: aclose() exits every context on the stack, last-in first-out
Closed(stack) == Reverse(stack)

Cleanup ==
  /\ pc = "cleanup"
  /\ released' = released \o Closed(exit_stack)
  /\ pc' = "exited"
  /\ UNCHANGED <<startVars, regVars, queryVars, calls, printed, command, escaped,
                 prompt_reply>>

(***************************************************************************)
(* The servers of the interactive runs: a paper server, a server whose     *)
(* tool and prompt names collide with the first one's keys, and a server   *)
(* whose handshake fails.                                                  *)
(***************************************************************************)
ChatBehaviours ==
  {[fail |-> "none", tools |-> <<"search">>, prompts |-> <<>>,
    resources |-> <<"papers://ai">>],
   [fail |-> "none", tools |-> <<"papers://ai">>, prompts |-> <<"search">>,
    resources |-> <<>>],
   [fail |-> "initialize", tools |-> <<>>, prompts |-> <<>>, resources |-> <<>>]}

Startup(maxServers, behaviours) ==
  \/ \E n \in 0..maxServers : LoadConfig(n)
  \/ LoadConfigFails
  \/ \E b \in behaviours : ConnectToServer(b)

ChatLoop ==
  \/ \E kind \in {"empty", "unknown", "usage", "prompts"} : ReadSimple(kind)
  \/ InputFails
  \/ ReadQuit
  \/ \E topic \in Topics, result \in ReadResults : GetResource(topic, result)
  \/ \E name \in RequestNames, result \in PromptResults : ExecutePrompt(name, result)
  \/ \E query \in Queries : ReadQuery(query)

ProcessQuery ==
  \/ SendModelRequest
  \/ ModelAnswers
  \/ \E response_calls \in ToolCallLists(Len(sent)) : ModelRequestsTools(response_calls)
  \/ ModelFails
  \/ BeginToolCall
  \/ ToolReturns
  \/ ToolFails

Next ==
  \/ Startup(MaxChatServers, ChatBehaviours)
  \/ ChatLoop
  \/ ProcessQuery
  \/ Cleanup

Spec == Init /\ [][Next]_vars

\* process_query is one coroutine that the event loop resumes whenever the
\* reply it awaits arrives: its steps are taken as long as they are possible
LiveSpec == Spec /\ WF_vars(ProcessQuery)

(***************************************************************************)
(* Registration alone: main up to the first prompt of chat_loop, over every *)
(* behaviour of a server.                                                  *)
(***************************************************************************)
NextReg == Startup(MaxServers, RegBehaviours)

SpecReg == Init /\ [][NextReg]_vars

(***************************************************************************)
(* Vocabulary of the properties.                                           *)
(***************************************************************************)
Servers == 1..Len(advertised)

Elements(seq) == {seq[i] : i \in 1..Len(seq)}

AdvertisesTool(s, name) == name \in Elements(advertised[s].tools)
AdvertisesPrompt(s, name) == name \in Elements(advertised[s].prompts)

RegistrationDone == pc = "input" /\ command[1] = "none"

InProcessQuery ==
  pc \in {"AwaitingModel", "ModelInFlight", "HandlingToolCalls", "ToolInFlight"}

\* the call the for loop is about to handle parses, and its name resolves
ArgumentsParse(call) == json_loads(call.arguments) # "JSONDecodeError"
NameResolves(call) == call.name \in DictKeys(sessions)

IsPairFor(assistant, tool, call) ==
  /\ assistant.role = "assistant"
  /\ assistant.tool_call_id = call.id
  /\ assistant.name = call.name
  /\ tool.role = "tool"
  /\ tool.tool_call_id = call.id

(***************************************************************************)
(* C1.  For a model turn with N tool-invocation requests, the transcript   *)
(* of the next model request is the transcript of the previous request     *)
(* followed by exactly N adjacent (assistant, tool) pairs, one per         *)
(* request, in the order the model emitted the requests.                   *)
(***************************************************************************)
C1_PairsBeforeNextRequest ==
  \A t \in 2..Len(sent) :
    LET before == sent[t - 1]
        now == sent[t]
        requests == responses[t - 1]
        N == Len(requests)
        base == Len(before)
    IN /\ Len(now) = base + 2 * N
       /\ SubSeq(now, 1, base) = before
       /\ \A k \in 1..N : IsPairFor(now[base + 2 * k - 1], now[base + 2 * k], requests[k])

C1_Witness ==
  /\ Len(sent) = 2
  /\ Len(responses[1]) = MaxCalls

\* a request after the one being handled, which parses and resolves
SiblingRemains ==
  \E j \in (idx + 1)..Len(tool_calls) :
    ArgumentsParse(tool_calls[j]) /\ NameResolves(tool_calls[j])

(***************************************************************************)
(* C2.  When the name of a tool-invocation request resolves to no session  *)
(* and requests of the same turn remain, 'not found' is reported, no call  *)
(* is made for it, and the loop is still in HandlingToolCalls, at the next *)
(* request of the turn (from where it goes back to AwaitingModel).         *)
(***************************************************************************)
C2_NotFoundSkipsOnlyThatCall ==
  [][(/\ pc = "HandlingToolCalls"
      /\ ArgumentsParse(tool_calls[idx])
      /\ ~NameResolves(tool_calls[idx])
      /\ SiblingRemains)
     => (/\ Last(printed') = <<"Tool not found", tool_calls[idx].name>>
         /\ calls' = calls
         /\ pc' = "HandlingToolCalls"
         /\ idx' = idx + 1)]_vars

(***************************************************************************)
(* C3.  A tool-invocation request whose argument payload does not parse,   *)
(* while requests of the same turn remain, does not end the query: the     *)
(* loop is still in HandlingToolCalls, at the next request of the turn.    *)
(***************************************************************************)
C3_ParseFailureIsPerCall ==
  [][(/\ pc = "HandlingToolCalls"
      /\ ~ArgumentsParse(tool_calls[idx])
      /\ SiblingRemains)
     => (/\ pc' = "HandlingToolCalls"
         /\ idx' = idx + 1)]_vars

LastToolServer(name) ==
  CHOOSE s \in Servers :
    /\ AdvertisesTool(s, name)
    /\ \A r \in Servers : AdvertisesTool(r, name) => r <= s

(***************************************************************************)
(* C4.  After all registrations, none of which failed, a tool name that    *)
(* two different servers advertised resolves to the session of the one of  *)
(* them registered last.                                                   *)
(***************************************************************************)
C4_LastToolRegistrationWins ==
  (RegistrationDone /\ \A s \in Servers : ~advertised[s].failed) =>
    \A name \in Names :
      (\E s1, s2 \in Servers :
          s1 # s2 /\ AdvertisesTool(s1, name) /\ AdvertisesTool(s2, name))
      => DictGet(sessions, name) = LastToolServer(name)

IsRegistered(s) ==
  /\ \A name \in Elements(advertised[s].tools) :
        /\ name \in DictKeys(sessions)
        /\ \E i \in 1..Len(available_tools) :
              available_tools[i] = [name |-> name, server |-> s]
  /\ \A name \in Elements(advertised[s].prompts) :
        /\ name \in DictKeys(sessions)
        /\ \E i \in 1..Len(available_prompts) :
              available_prompts[i] = [name |-> name, server |-> s]
  /\ \A uri \in Elements(advertised[s].resources) : uri \in DictKeys(sessions)

(***************************************************************************)
(* C5.  Whatever subset of the configured servers fails, connect_to_servers *)
(* attempts every server in configuration order and does not fail, and the *)
(* tools, prompts and resources of every server that did not fail are      *)
(* registered.                                                             *)
(***************************************************************************)
C5_PartialAvailability ==
  /\ pc \in {"connecting", "input"} =>
        /\ Len(advertised) = next_server - 1
        /\ ~escaped
        /\ \A s \in Servers : ~advertised[s].failed => IsRegistered(s)
  /\ pc = "connecting" => next_server <= config
  /\ pc = "input" => Len(advertised) = config
  /\ pc \in {"cleanup", "exited"} /\ command[1] = "none" => advertised = <<>>

C5_Witness ==
  /\ RegistrationDone
  /\ config = 3
  /\ advertised[1].failed
  /\ ~advertised[2].failed /\ advertised[2].tools # <<>>
  /\ advertised[3].failed

WellPaired(transcript) ==
  \A i \in 1..Len(transcript) :
    /\ transcript[i].role = "tool" =>
          \E j \in 1..(i - 1) :
            /\ transcript[j].role = "assistant"
            /\ transcript[j].tool_call_id = transcript[i].tool_call_id
    /\ transcript[i].role = "assistant" =>
          /\ i < Len(transcript)
          /\ transcript[i + 1].role = "tool"
          /\ transcript[i + 1].tool_call_id = transcript[i].tool_call_id

(***************************************************************************)
(* C6.  In every transcript sent to the model, every tool entry carries    *)
(* the identifier of an assistant tool-call entry before it, and every     *)
(* assistant tool-call entry is directly followed by its tool entry.       *)
(***************************************************************************)
C6_SentTranscriptsArePaired == \A t \in 1..Len(sent) : WellPaired(sent[t])

C6_Witness ==
  /\ Len(sent) = 2
  /\ \E i \in 1..Len(sent[2]) : sent[2][i].role = "tool"

\* no key of the registry starts with papers://
NoPapersKey == \A k \in DictKeys(sessions) : ~StartsWithPapers(k)

\* the prompt and resource cases, read off the command just served
C7_UnknownPromptOrResource ==
  /\ ~escaped \/ command[1] = "none"
  /\ command[1] = "/prompt" /\ command[2] \notin DictKeys(sessions) =>
        /\ pc = "input"
        /\ printed = <<<<"Prompt not found", command[2]>>>>
        /\ calls = <<>>
  /\ (/\ command[1] = "@"
      /\ command[2] \notin DictKeys(sessions)
      /\ StartsWithPapers(command[2]) => NoPapersKey) =>
        /\ pc = "input"
        /\ printed = <<<<"Resource not found", command[2]>>>>
        /\ calls = <<>>

\* the tool case, as the step of the for loop that meets the unknown name
C7_UnknownTool ==
  (/\ pc = "HandlingToolCalls"
   /\ ArgumentsParse(tool_calls[idx])
   /\ ~NameResolves(tool_calls[idx]))
  => (/\ pc' = "input"
      /\ Last(printed') = <<"Tool not found", tool_calls[idx].name>>
      /\ calls' = calls
      /\ ~escaped')

(***************************************************************************)
(* C7.  A tool name, prompt name or resource URI that resolves to no       *)
(* session is reported as not found, no remote call is made for it, no     *)
(* exception leaves chat_loop, and chat_loop reads its next input.         *)
(***************************************************************************)
C7_NotFoundIsReported == []C7_UnknownPromptOrResource /\ [][C7_UnknownTool]_vars

C7_Witness ==
  /\ pc = "input"
  /\ command[1] = "query"
  /\ sessions # <<>>
  /\ printed # <<>>
  /\ Last(printed) = <<"Tool not found", "nosuch">>

\* the step that receives a response without tool calls (or an exception)
C8_AnswerEndsQuery ==
  (pc = "ModelInFlight" /\ responses' = responses)
  => (pc' = "input" /\ calls' = calls /\ sent' = sent)

(***************************************************************************)
(* C8.  A model response without tool-invocation requests ends             *)
(* process_query with no further model request and no tool call; and, as   *)
(* every tool call returns and the model ends up answering without tool    *)
(* calls, every process_query invocation returns to its caller.            *)
(***************************************************************************)
C8_QueryTerminates ==
  [][C8_AnswerEndsQuery]_vars /\ (InProcessQuery ~> pc = "input")

C8_Witness ==
  /\ pc = "input"
  /\ Len(sent) = 2
  /\ Last(printed) = <<"message.content", "">>

PapersOwners ==
  {s \in Servers : \E uri \in Elements(advertised[s].resources) : StartsWithPapers(uri)}

(***************************************************************************)
(* C9.  get_resource reads through the session of the exact entry when     *)
(* there is one; otherwise through a session that owns a registered        *)
(* papers:// resource when one exists; otherwise it reports not found and  *)
(* reads nothing.                                                          *)
(***************************************************************************)
C9_FallbackReadsFromPapersOwner ==
  (pc = "input" /\ command[1] = "@") =>
    LET uri == command[2]
        exact == DictGet(sessions, uri)
    IN IF exact # None
       THEN /\ Len(calls) = 1
            /\ calls[1] = [op |-> "read_resource", session |-> exact, arg |-> uri]
       ELSE IF PapersOwners # {}
       THEN /\ Len(calls) = 1
            /\ calls[1].op = "read_resource" /\ calls[1].arg = uri
            /\ calls[1].session \in PapersOwners
       ELSE /\ calls = <<>>
            /\ printed = <<<<"Resource not found", uri>>>>

(***************************************************************************)
(* C10.  execute_prompt with a name that no server registered as a prompt  *)
(* prints a not-found message and makes no get_prompt call and no model    *)
(* call.                                                                   *)
(***************************************************************************)
C10_UnregisteredPromptMakesNoCall ==
  (/\ command[1] = "/prompt"
   /\ \A s \in Servers : ~AdvertisesPrompt(s, command[2]))
  => (/\ printed = <<<<"Prompt not found", command[2]>>>>
      /\ calls = <<>>)

Count(seq, x) == Cardinality({i \in 1..Len(seq) : seq[i] = x})

InteractivePhaseOver == pc \in {"cleanup", "exited"}

(***************************************************************************)
(* C11.  Every context (transport or session) entered during the connect   *)
(* phase, those of servers that failed later included, is released exactly *)
(* once, by the one teardown step, which runs after the interactive phase  *)
(* has ended by quit or by a startup error; nothing is released before.    *)
(***************************************************************************)
C11_ReleasedOnceAtTeardown ==
  /\ [](pc # "exited" => released = <<>>)
  /\ [](pc = "exited" =>
         /\ \A c \in Elements(exit_stack) : Count(released, c) = 1
         /\ Elements(released) \subseteq Elements(exit_stack)
         /\ command[1] = "quit" \/ escaped)
  /\ [][released' # released =>
         /\ pc = "cleanup" /\ pc' = "exited"
         /\ released = <<>>
         /\ exit_stack' = exit_stack]_vars

C11_Witness ==
  /\ pc = "exited" /\ command[1] = "quit"
  /\ Len(exit_stack) = 2 * MaxChatServers
  /\ \E s \in Servers :
       /\ advertised[s].failed
       /\ [kind |-> "ClientSession", server |-> s] \in Elements(released)
       /\ [kind |-> "stdio_client", server |-> s] \in Elements(released)

ConfigFailed ==
  \E i \in 1..Len(printed) : printed[i][1] = "Error loading server config"

(***************************************************************************)
(* C12.  When the configuration cannot be read or parsed, the error leaves *)
(* connect_to_servers, no server is registered and no context is entered,  *)
(* chat_loop reads no input, and the program goes through the teardown     *)
(* before it exits with the failure.                                       *)
(***************************************************************************)
C12_ConfigFailureAbortsStartup ==
  /\ [](ConfigFailed =>
         /\ escaped
         /\ InteractivePhaseOver
         /\ sessions = <<>> /\ available_tools = <<>> /\ available_prompts = <<>>
         /\ exit_stack = <<>> /\ advertised = <<>>
         /\ command[1] = "none" /\ calls = <<>> /\ sent = <<>>)
  /\ [][pc' = "exited" /\ pc # "exited" => pc = "cleanup"]_vars

C12_Witness == pc = "exited" /\ escaped /\ ConfigFailed

(***************************************************************************)
(* C13.  sessions, available_tools and available_prompts change only in a  *)
(* step of connect_to_server; every step of the interactive phase and of   *)
(* the teardown, succeeding or failing, leaves the three unchanged.        *)
(***************************************************************************)
C13_RegistryFrozenAfterConnect ==
  [][regVars' # regVars => pc = "connecting"]_vars

\* a resource was read through the fallback, and a query failed
C13_Witness ==
  /\ pc = "input"
  /\ \/ /\ command[1] = "@"
        /\ calls # <<>>
        /\ DictGet(sessions, command[2]) = None
     \/ /\ command[1] = "query"
        /\ printed # <<>> /\ Last(printed) = <<"Error", "chat_loop">>
        /\ Len(calls) >= 2
  /\ sessions # <<>> /\ available_tools # <<>>

InFlight == pc \in {"ModelInFlight", "ToolInFlight"}

(***************************************************************************)
(* C14.  A step taken while a model request or a tool call is in flight    *)
(* either continues the query or ends that query alone: the outcome (the   *)
(* answer, or the error of the failed request or call) is printed, no      *)
(* exception leaves chat_loop, and chat_loop is back at its prompt.        *)
(* chat_loop is left only by reading 'quit'.                               *)
(***************************************************************************)
C14_FailureAbortsOnlyTheQuery ==
  /\ [][InFlight =>
         \/ InProcessQuery'
         \/ /\ pc' = "input"
            /\ Len(printed') = Len(printed) + 1
            /\ Last(printed') \in {<<"message.content", "">>, <<"Error", caller>>}
            /\ escaped' = escaped
            /\ command' = command]_vars
  /\ [](InteractivePhaseOver /\ command[1] # "none" => command[1] = "quit" /\ ~escaped)

\* the second model request of a query failed and chat_loop reads on
C14_Witness ==
  /\ pc = "input" /\ command[1] = "query"
  /\ Len(sent) = 2 /\ Len(responses) = 1
  /\ Last(calls).op = "model"
  /\ Last(printed) = <<"Error", "chat_loop">>

\* position in calls of the last model request (0 when there is none)
LastModelPos ==
  LET ps == {i \in 1..Len(calls) : calls[i].op = "model"}
  IN IF ps = {} THEN 0 ELSE CHOOSE i \in ps : \A j \in ps : j <= i

\* the remote calls issued since the last model request
TurnCalls == SubSeq(calls, LastModelPos + 1, Len(calls))

\* the transcript entries appended since the last model request
TurnEntries == SubSeq(messages, Len(Last(sent)) + 1, Len(messages))

(***************************************************************************)
(* C15.  At most one model request or tool call is outstanding.  While a   *)
(* model request is in flight no tool call of the turn has been issued;    *)
(* the tool calls of a turn are issued in the order the model emitted      *)
(* them, call k+1 only after call k returned and its two transcript        *)
(* entries were appended; the next model request waits until every call    *)
(* of the turn has been handled.                                           *)
(***************************************************************************)
C15_OneRemoteOperationAtATime ==
  (InProcessQuery /\ sent # <<>>) =>
    LET issued == Len(TurnCalls)
        handled == Len(TurnEntries) \div 2
    IN /\ SubSeq(messages, 1, Len(Last(sent))) = Last(sent)
       /\ Len(TurnEntries) = 2 * handled
       /\ pc = "ModelInFlight" => issued = 0 /\ handled = 0
       /\ pc = "ToolInFlight" => issued = handled + 1 /\ idx = issued
       /\ pc = "HandlingToolCalls" => issued = handled /\ idx = issued + 1
       /\ pc = "AwaitingModel" => issued = handled /\ issued = Len(Last(responses))
       /\ pc # "ModelInFlight" =>
            /\ \A k \in 1..issued :
                 /\ TurnCalls[k].op = "call_tool"
                 /\ TurnCalls[k].arg = Last(responses)[k].name
            /\ \A k \in 1..handled :
                 /\ TurnEntries[2 * k - 1].role = "assistant"
                 /\ TurnEntries[2 * k].role = "tool"
                 /\ TurnEntries[2 * k].tool_call_id = Last(responses)[k].id

\* the second call of a turn is in flight, the first one is in the transcript
C15_Witness ==
  /\ pc = "ToolInFlight" /\ idx = 2
  /\ Len(TurnCalls) = 2 /\ Len(TurnEntries) = 2

\* the words carried by the first message of every result of PromptContents
PromptText == <<"summarize", "ai">>

ModelRequests == {i \in 1..Len(calls) : calls[i].op = "model"}

(***************************************************************************)
(* C16.  When get_prompt returns at least one message, execute_prompt      *)
(* starts exactly one run of the conversation loop, and the transcript of  *)
(* its first model request is the single user message carrying the text    *)
(* of the first returned message.  When get_prompt raises or returns no    *)
(* message, no model request is made and execute_prompt returns to         *)
(* chat_loop without an exception.                                         *)
(***************************************************************************)
C16_PromptStartsOneConversation ==
  (command[1] = "/prompt" /\ prompt_reply # "none") =>
    /\ calls[1].op = "get_prompt" /\ calls[1].arg = command[2]
    /\ \A i \in 2..Len(calls) : calls[i].op # "get_prompt"
    /\ ~escaped
    /\ IF prompt_reply \in {"raise", "empty"}
       THEN /\ pc = "input"
            /\ ModelRequests = {} /\ sent = <<>>
            /\ printed = IF prompt_reply = "raise"
                         THEN <<<<"Error", "execute_prompt">>>> ELSE <<>>
       ELSE /\ printed[1] = <<"Executing prompt", command[2]>>
            /\ pc = "AwaitingModel" \/ sent # <<>>
            /\ sent = <<>> => messages = <<UserMessage(PromptText)>>
            /\ sent # <<>> => sent[1] = <<UserMessage(PromptText)>>
            /\ \A t \in 2..Len(sent) : Len(sent[t]) > 1
            /\ Cardinality(ModelRequests) = Len(sent)

\* a prompt that returned messages was answered by the model
C16_Witness ==
  /\ pc = "input" /\ command[1] = "/prompt"
  /\ prompt_reply = "messages"
  /\ Len(sent) = 1
  /\ Last(printed) = <<"message.content", "">>

IsPrefix(a, b) == Len(a) <= Len(b) /\ SubSeq(b, 1, Len(a)) = a

\* the text process_query was called with by the command being served
InvocationQuery == IF command[1] = "/prompt" THEN PromptText ELSE <<"hello">>

(***************************************************************************)
(* C17.  Within one invocation of process_query every model request        *)
(* carries an extension of the transcript of the previous request, and     *)
(* the current transcript extends the last one sent.  The first request    *)
(* of an invocation carries one message only, the user message with the    *)
(* query of that invocation, whatever earlier invocations left behind.     *)
(***************************************************************************)
C17_TranscriptGrowsFromOneUserMessage ==
  sent # <<>> =>
    /\ sent[1] = <<[role |-> "user", content |-> InvocationQuery,
                    tool_call_id |-> <<>>, name |-> "", arguments |-> ""]>>
    /\ \A t \in 2..Len(sent) :
         IsPrefix(sent[t - 1], sent[t]) /\ Len(sent[t]) > Len(sent[t - 1])
    /\ InProcessQuery => IsPrefix(Last(sent), messages)

\* a query that made two model requests
C17_Witness ==
  /\ command[1] = "query"
  /\ Len(sent) = 2 /\ Len(sent[2]) = 1 + 2 * MaxCalls

(***************************************************************************)
(* C18.  Every call_tool(name) that process_query issues for a tool of the *)
(* catalog goes to the session of a server that advertised a tool called   *)
(* name, also when another server registered a prompt or a resource under  *)
(* the same string.                                                        *)
(***************************************************************************)
C18_ToolCallReachesAToolOwner ==
  \A i \in 1..Len(calls) :
    (/\ calls[i].op = "call_tool"
     /\ \E s \in Servers : AdvertisesTool(s, calls[i].arg))
    => AdvertisesTool(calls[i].session, calls[i].arg)

\* what the registry and the two catalogs hold on behalf of server s
SessionKeysOf(s) == {sessions[i][1] : i \in {j \in 1..Len(sessions) : sessions[j][2] = s}}
ToolsOf(s) == {d \in Elements(available_tools) : d.server = s}
PromptsOf(s) == {d \in Elements(available_prompts) : d.server = s}

(***************************************************************************)
(* C19.  A server whose connect_to_server failed at any step has no entry  *)
(* in the registry, none in the tool catalog and none in the prompt list.  *)
(***************************************************************************)
C19_FailedServerContributesNothing ==
  \A s \in Servers :
    advertised[s].failed =>
      /\ SessionKeysOf(s) = {}
      /\ ToolsOf(s) = {}
      /\ PromptsOf(s) = {}

(***************************************************************************)
(* C20.  After any sequence of registrations the tool catalog holds one    *)
(* descriptor per tool name, also when two servers advertise the same      *)
(* tool name, and every name of the catalog resolves in the registry to a  *)
(* session.                                                                *)
(***************************************************************************)
C20_CatalogConsistentWithRegistry ==
  (\A s \in Servers : ~advertised[s].failed) =>
    /\ \A i, j \in 1..Len(available_tools) :
         available_tools[i].name = available_tools[j].name => i = j
    /\ \A i \in 1..Len(available_tools) :
         DictGet(sessions, available_tools[i].name) # None
====
